---- MODULE Spec2Model ----
(***************************************************************************)
(* A model of mmdet/apis/inference.py (MI-AOD): init_detector,             *)
(* inference_detector with its five uncertainty formulas and the top-k     *)
(* aggregation, and async_inference_detector.                              *)
(*                                                                         *)
(* Numbers.  Tensor entries are exact fixed-point numbers.  A post-sigmoid *)
(* entry p is the integer P with p = P / Unit (0 < P < Unit).  log is the  *)
(* table LnTab, in hundredths: log(n / d) = (LnTab[n] - LnTab[d]) / 100.   *)
(* Every element of loss_p of one formula has the same denominator, and    *)
(* mean(dim=1) divides every row by the same width, so a per-sample        *)
(* uncertainty is kept as its integer numerator (the row sum): order,      *)
(* sign and zero are those of the real value.  A mean over samples is the  *)
(* exact fraction [num, den] in those units.                               *)
(***************************************************************************)
EXTENDS Integers, Sequences, FiniteSets

\* ---------------------------------------------------------------- bounds
\* Largest number of sample rows N of the concatenated head tensors.
MaxN == 2
\* Width of the feature dimension (dim=1) of the head tensors.
NumFeat == 1
\* Number of concurrently running async_inference_detector calls.
NumCalls == 3

\* Raw head outputs (logits) the detector may produce.
Logits == {-1, 2}

\* cfg.uncertainty_type values tried: the five names and two others.
TypeInputs ==
    {"l2_norm", "kl_divergence", "cross_entropy", "js_divergence",
     "focal_loss", "entropy", "L2_norm"}

\* cfg.k values tried.
KInputs == 0 .. (MaxN + 1)

VARIABLES
    grad,               \* torch.is_grad_enabled(), global to the thread
    \* inference_detector
    pc,                 \* position of the call
    cfg,                \* model.cfg: [uncertainty_type, k]
    prev,               \* the value torch.no_grad() saved on entry
    grad_at_call,       \* history: grad when the call began
    result,             \* detection result of the first forward pass
    y_head_f_1,         \* post-sigmoid head tensor, N rows of NumFeat entries
    y_head_f_2,
    uncertainty_all_N,  \* per-sample uncertainty (numerators)
    arg,                \* uncertainty_all_N.argsort()
    uncertainty_single, \* mean of the selected samples, [num, den]
    outcome,            \* what the call ended in
    \* async_inference_detector
    apc,                \* position of each call
    agrad_init,         \* history: grad before any call ran
    \* init_detector
    ipc,                \* position of the call
    iargs,              \* [config, checkpoint, device]
    config,             \* the local `config` and the caller's object
    model,              \* the detector being constructed
    ioutcome            \* what the call ended in

infVars == <<pc, cfg, prev, grad_at_call, result, y_head_f_1, y_head_f_2,
             uncertainty_all_N, arg, uncertainty_single, outcome>>
asyncVars == <<apc, agrad_init>>
initVars == <<ipc, iargs, config, model, ioutcome>>
vars == <<grad, infVars, asyncVars, initVars>>

\* ------------------------------------------------------------ arithmetic
\* The fixed-point representation of 1.0.
Unit == 8

\* torch.nn.Sigmoid on the logits -2 .. 2, rounded to eighths.
Sigmoid(x) ==
    CASE x = -2 -> 1
      [] x = -1 -> 2
      [] x = 0 -> 4
      [] x = 1 -> 6
      [] x = 2 -> 7

\* round(100 * ln n) for n in 1 .. 16.
LnTab ==
    <<0, 69, 110, 139, 161, 179, 195, 208,
      220, 230, 240, 248, 256, 264, 271, 277>>

\* torch.log(n / d), in hundredths.
Log(n, d) == LnTab[n] - LnTab[d]

RECURSIVE Pow(_, _)
Pow(x, n) == IF n = 0 THEN 1 ELSE x * Pow(x, n - 1)

RECURSIVE SumSeq(_)
SumSeq(s) == IF s = <<>> THEN 0 ELSE Head(s) + SumSeq(Tail(s))

RECURSIVE Cat(_)
\* torch.cat(tensors, 0): the rows of the tensors of a list, in order.
Cat(ts) == IF ts = <<>> THEN <<>> ELSE Head(ts) \o Cat(Tail(ts))

\* torch.nn.Sigmoid()(t): the sigmoid of every entry.
SigmoidTensor(t) ==
    [i \in 1 .. Len(t) |-> [j \in 1 .. Len(t[i]) |-> Sigmoid(t[i][j])]]

\* loss_p.mean(dim=1), as the row sums (every row has the same width).
MeanDim1(loss_p) == [i \in 1 .. Len(loss_p) |-> SumSeq(loss_p[i])]

\* ------------------------------------------------- the five formulas
\* (y_head_f_1 - y_head_f_2).pow(2); denominator Unit^2.
L2Elem(a, b) == Pow(a - b, 2)

\* p * torch.log(p / q); denominator 100 * Unit.
KlElem(a, b) == a * Log(a, b)

\* Variant: the cross-entropy without its leading minus sign.
CeElemNoMinus(a, b) == a * Log(b, Unit) + (Unit - a) * Log(Unit - b, Unit)

\* -(p * log(q) + (1 - p) * log(1 - q)); denominator 100 * Unit.
CeElem(a, b) == -(a * Log(b, Unit) + (Unit - a) * Log(Unit - b, Unit))

\* Variant: the mixture taken as p + q, not halved.
KlToMidNoHalf(a, b) == a * Log(a, a + b)

\* kl_diver(p, (p + q) / 2): p / ((p + q) / 2) = 2p / (p + q).
KlToMid(a, b) == a * Log(2 * a, a + b)

\* 0.5 * kl_diver(p, m) + 0.5 * kl_diver(q, m); denominator 200 * Unit.
JsElem(a, b) == KlToMid(a, b) + KlToMid(b, a)

alphaNum == 1
alphaDen == 4
gamma == 2

\* alpha_factor * modulating_factor * ce, with both `if alpha:` and
\* `if gamma:` taken (alpha and gamma are nonzero literals);
\* denominator (alphaDen * Unit) * Unit^(2 * gamma) * (100 * Unit).
FocalElem(a, b) ==
    LET p_t == a * b + (Unit - a) * (Unit - b)
        alpha_factor == a * alphaNum + (Unit - a) * (alphaDen - alphaNum)
        modulating_factor == Pow(Unit * Unit - p_t, gamma)
    IN  alpha_factor * modulating_factor * CeElem(a, b)

\* The names listed in the ValueError's message.
uncertainty_types ==
    <<"l2_norm", "kl_divergence", "cross_entropy", "js_divergence", "focal_loss">>

\* Variant: the chain without its 'focal_loss' branch.
BranchNoFocal(t) ==
    IF t = "l2_norm" THEN "l2_norm"
    ELSE IF t = "kl_divergence" THEN "kl_divergence"
    ELSE IF t = "cross_entropy" THEN "cross_entropy"
    ELSE IF t = "js_divergence" THEN "js_divergence"
    ELSE "else"

\* The if / elif chain on cfg.uncertainty_type: the branch taken.
Branch(t) ==
    IF t = "l2_norm" THEN "l2_norm"
    ELSE IF t = "kl_divergence" THEN "kl_divergence"
    ELSE IF t = "cross_entropy" THEN "cross_entropy"
    ELSE IF t = "js_divergence" THEN "js_divergence"
    ELSE IF t = "focal_loss" THEN "focal_loss"
    ELSE "else"

\* loss_p of the branch taken, entry by entry.
LossElem(b, p, q) ==
    CASE b = "l2_norm" -> L2Elem(p, q)
      [] b = "kl_divergence" -> KlElem(p, q)
      [] b = "cross_entropy" -> CeElem(p, q)
      [] b = "js_divergence" -> JsElem(p, q)
      [] b = "focal_loss" -> FocalElem(p, q)

\* uncertainty_all_N of a branch that computes one.
UncertaintyAllN(b, y1, y2) ==
    MeanDim1([i \in 1 .. Len(y1) |->
                 [j \in 1 .. Len(y1[i]) |-> LossElem(b, y1[i][j], y2[i][j])]])

\* ------------------------------------------------------ top-k selection
Perms(n) ==
    {f \in [1 .. n -> 1 .. n] : \A i, j \in 1 .. n : i # j => f[i] # f[j]}

\* Variant: the index orders that sort u descending.
ArgsortDescending(u) ==
    {a \in Perms(Len(u)) : \A i \in 1 .. (Len(u) - 1) : u[a[i]] >= u[a[i + 1]]}

\* Tensor.argsort(): the index orders that sort u ascending (equal entries
\* in any order: the sort is not stable).
Argsort(u) ==
    {a \in Perms(Len(u)) : \A i \in 1 .. (Len(u) - 1) : u[a[i]] <= u[a[i + 1]]}

\* Variant: the slice a[len(a) - k:], which is empty for k = 0.
SliceFromLenMinusK(a, k) ==
    LET n == Len(a)
        start == IF k > n THEN 0 ELSE n - k
    IN  [i \in 1 .. (n - start) |-> a[start + i]]

\* The Python slice a[-k:].
SliceLast(a, k) ==
    LET n == Len(a)
        start == IF k > 0 THEN (IF k > n THEN 0 ELSE n - k)
                 ELSE (IF -k > n THEN n ELSE -k)
    IN  [i \in 1 .. (n - start) |-> a[start + i]]

\* Variant: the last Len(idx) entries of u, whatever idx holds (u[-k:]).
GatherPositional(u, idx) ==
    [i \in 1 .. Len(idx) |-> u[Len(u) - Len(idx) + i]]

\* u[idx]: indexing a tensor with an index tensor.
Gather(u, idx) == [i \in 1 .. Len(idx) |-> u[idx[i]]]

\* Tensor.mean() of a vector.
Mean(v) == [num |-> SumSeq(v), den |-> Len(v)]

\* uncertainty_all_N[arg[-cfg.k:]].mean()
TopKMean(u, a, k) == Mean(Gather(u, SliceLast(a, k)))

\* ---------------------------------------------------- torch.no_grad()
\* __enter__: grad mode while inside the block.
NoGradEnter(g) == FALSE
\* Variant: an exit that leaves the mode as it is.
NoGradExitKeep(saved, g) == g
\* __exit__: grad mode on leaving the block, given the saved value and the
\* current one.
NoGradExit(saved, g) == saved

None == "None"

InfInit ==
    /\ pc = "idle"
    /\ cfg = None
    /\ prev = None
    /\ grad_at_call = None
    /\ result = None
    /\ y_head_f_1 = <<>>
    /\ y_head_f_2 = <<>>
    /\ uncertainty_all_N = <<>>
    /\ arg = <<>>
    /\ uncertainty_single = None
    /\ outcome = [type |-> None]

AsyncInit ==
    /\ apc = [c \in 1 .. NumCalls |-> "idle"]
    /\ agrad_init = grad

\* No detector has been built.
NoModel ==
    [built |-> FALSE, weights |-> None, CLASSES |-> "unset", cfg |-> "unset",
     device |-> None, training |-> FALSE, warned |-> FALSE]

\* No Config object.
NoConfig == [kind |-> None, pretrained |-> None]

InitInit ==
    /\ ipc = "idle"
    /\ iargs = None
    /\ config = None
    /\ model = NoModel
    /\ ioutcome = [type |-> None]

\* ---------------------------------------------------- inference_detector
\* Lines 89-111: cfg = model.cfg and the data pipeline.
Prepare ==
    /\ pc = "idle"
    /\ \E t \in TypeInputs, k \in KInputs :
          cfg' = [uncertainty_type |-> t, k |-> k]
    /\ grad_at_call' = grad
    /\ pc' = "prepared"
    /\ UNCHANGED <<grad, prev, result, y_head_f_1, y_head_f_2,
                   uncertainty_all_N, arg, uncertainty_single, outcome>>
    /\ UNCHANGED <<asyncVars, initVars>>

\* Line 114: with torch.no_grad():
EnterNoGrad ==
    /\ pc = "prepared"
    /\ prev' = grad
    /\ grad' = NoGradEnter(grad)
    /\ pc' = "forward"
    /\ UNCHANGED <<cfg, grad_at_call, result, y_head_f_1, y_head_f_2,
                   uncertainty_all_N, arg, uncertainty_single, outcome>>
    /\ UNCHANGED <<asyncVars, initVars>>

\* The per-level tensors a head returns: rows split at s into one or two.
Levels(rows, s) ==
    IF s = 0 THEN <<rows>>
    ELSE <<SubSeq(rows, 1, s), SubSeq(rows, s + 1, Len(rows))>>

\* Lines 115-122: both forward passes, torch.cat and the sigmoid.
Forward ==
    /\ pc = "forward"
    /\ \E n \in 1 .. MaxN :
       \E h1, h2 \in [1 .. n -> [1 .. NumFeat -> Logits]] :
       \E s \in 0 .. (n - 1) :
          /\ y_head_f_1' = SigmoidTensor(Cat(Levels(h1, s)))
          /\ y_head_f_2' = SigmoidTensor(Cat(Levels(h2, s)))
    /\ result' = "detections"
    /\ pc' = "dispatch"
    /\ UNCHANGED <<grad, cfg, prev, grad_at_call,
                   uncertainty_all_N, arg, uncertainty_single, outcome>>
    /\ UNCHANGED <<asyncVars, initVars>>

\* Lines 123-158: the formula chosen by cfg.uncertainty_type, or the
\* ValueError, which leaves the no_grad block.
DispatchCompute ==
    /\ pc = "dispatch"
    /\ Branch(cfg.uncertainty_type) # "else"
    /\ uncertainty_all_N' =
          UncertaintyAllN(Branch(cfg.uncertainty_type), y_head_f_1, y_head_f_2)
    /\ pc' = "select"
    /\ UNCHANGED <<grad, cfg, prev, grad_at_call, result, y_head_f_1,
                   y_head_f_2, arg, uncertainty_single, outcome>>
    /\ UNCHANGED <<asyncVars, initVars>>

DispatchRaise ==
    /\ pc = "dispatch"
    /\ Branch(cfg.uncertainty_type) = "else"
    /\ outcome' = [type |-> "ValueError",
                   name |-> cfg.uncertainty_type,
                   listed |-> uncertainty_types]
    /\ grad' = NoGradExit(prev, grad)
    /\ pc' = "raised"
    /\ UNCHANGED <<cfg, prev, grad_at_call, result, y_head_f_1, y_head_f_2,
                   uncertainty_all_N, arg, uncertainty_single>>
    /\ UNCHANGED <<asyncVars, initVars>>

\* Lines 159-161: argsort, the mean of the last k, the end of the no_grad
\* block and the return.
Select ==
    /\ pc = "select"
    /\ \E a \in Argsort(uncertainty_all_N) :
          /\ arg' = a
          /\ uncertainty_single' = TopKMean(uncertainty_all_N, a, cfg.k)
    /\ grad' = NoGradExit(prev, grad)
    /\ outcome' = [type |-> "return",
                   value |-> <<result, uncertainty_single'>>]
    /\ pc' = "returned"
    /\ UNCHANGED <<cfg, prev, grad_at_call, result, y_head_f_1, y_head_f_2,
                   uncertainty_all_N>>
    /\ UNCHANGED <<asyncVars, initVars>>

Init ==
    /\ grad \in BOOLEAN
    /\ InfInit
    /\ AsyncInit
    /\ InitInit

Next ==
    \/ Prepare
    \/ EnterNoGrad
    \/ Forward
    \/ DispatchCompute
    \/ DispatchRaise
    \/ Select

Spec == Init /\ [][Next]_vars

\* ---------------------------------------------- async_inference_detector
\* Line 187: torch.set_grad_enabled(False).
AsyncSetGrad(g) == FALSE
\* Variant: a call that re-enables the mode when it completes.
AsyncGradOnReturnEnable(g) == TRUE
\* Lines 185-189: the grad mode a call leaves behind when it completes,
\* given the current one ("We don't restore").
AsyncGradOnReturn(g) == g

\* Lines 175-183: cfg, the pipeline, the data.
APrepare(c) ==
    /\ apc[c] = "idle"
    /\ apc' = [apc EXCEPT ![c] = "prepared"]
    /\ UNCHANGED <<grad, agrad_init, infVars, initVars>>

\* Lines 187-188: the flag is cleared and aforward_test runs to its first
\* suspension.
AStart(c) ==
    /\ apc[c] = "prepared"
    /\ grad' = AsyncSetGrad(grad)
    /\ apc' = [apc EXCEPT ![c] = "aforward_test"]
    /\ UNCHANGED <<agrad_init, infVars, initVars>>

\* Line 188: aforward_test is resumed and suspends again.
AResume(c) ==
    /\ apc[c] = "aforward_test"
    /\ apc' = [apc EXCEPT ![c] = "aforward_test_2"]
    /\ UNCHANGED <<grad, agrad_init, infVars, initVars>>

\* Lines 188-189: aforward_test completes and the result is returned.
AReturn(c) ==
    /\ apc[c] = "aforward_test_2"
    /\ grad' = AsyncGradOnReturn(grad)
    /\ apc' = [apc EXCEPT ![c] = "done"]
    /\ UNCHANGED <<agrad_init, infVars, initVars>>

InForward(c) == apc[c] \in {"aforward_test", "aforward_test_2"}

NextAsync ==
    \E c \in 1 .. NumCalls :
        \/ APrepare(c)
        \/ AStart(c)
        \/ AResume(c)
        \/ AReturn(c)

SpecAsync == Init /\ [][NextAsync]_vars

\* ---------------------------------------------------------- init_detector
ConfigInputs == {"str", "Config", "dict", "NoneType"}
CheckpointInputs == {None, "meta_with_CLASSES", "meta_without_CLASSES", "no_meta"}
DeviceInputs == {"cuda:0", "cpu"}
Pretrained == "torchvision://resnet50"

\* Variant: the chain without its elif branch.
ConfigCheckNoElif(kind) == IF kind = "str" THEN "fromfile" ELSE "keep"

\* Lines 27-31: what the isinstance chain does with a config of a type.
ConfigCheck(kind) ==
    IF kind = "str" THEN "fromfile"
    ELSE IF kind # "Config" THEN "TypeError"
    ELSE "keep"

\* Variant: the COCO classes whatever the checkpoint holds.
ClassesOfAlwaysCoco(ckpt) == "coco_classes"

\* Lines 37-43: model.CLASSES for a loaded checkpoint with a meta dict.
ClassesOf(ckpt) ==
    IF ckpt = "meta_with_CLASSES" THEN "checkpoint_CLASSES" ELSE "coco_classes"

\* The call and its arguments; the caller's config object is `passed`.
ICall ==
    /\ ipc = "idle"
    /\ \E k \in ConfigInputs, ck \in CheckpointInputs, d \in DeviceInputs :
          /\ iargs' = [config |-> k, checkpoint |-> ck, device |-> d]
          /\ config' = [ref |-> "passed",
                        passed |-> [kind |-> k, pretrained |-> Pretrained],
                        loaded |-> NoConfig]
    /\ ipc' = "check"
    /\ UNCHANGED <<grad, model, ioutcome, infVars, asyncVars>>

\* Lines 27-28: mmcv.Config.fromfile(config) returns a new Config.
ICheckFromfile ==
    /\ ipc = "check"
    /\ ConfigCheck(config.passed.kind) = "fromfile"
    /\ config' = [config EXCEPT !.ref = "loaded",
                                !.loaded = [kind |-> "Config",
                                            pretrained |-> Pretrained]]
    /\ ipc' = "pretrained"
    /\ UNCHANGED <<grad, iargs, model, ioutcome, infVars, asyncVars>>

\* Lines 27-28: mmcv.Config.fromfile(config) fails (no such file).
ICheckFromfileFails ==
    /\ ipc = "check"
    /\ ConfigCheck(config.passed.kind) = "fromfile"
    /\ ioutcome' = [type |-> "FileNotFoundError"]
    /\ ipc' = "raised"
    /\ UNCHANGED <<grad, iargs, config, model, infVars, asyncVars>>

\* Lines 29-31: neither a str nor a Config.
ICheckRaise ==
    /\ ipc = "check"
    /\ ConfigCheck(config.passed.kind) = "TypeError"
    /\ ioutcome' = [type |-> "TypeError"]
    /\ ipc' = "raised"
    /\ UNCHANGED <<grad, iargs, config, model, infVars, asyncVars>>

\* Lines 27-29: a Config object is used as it is.
ICheckKeep ==
    /\ ipc = "check"
    /\ ConfigCheck(config.passed.kind) = "keep"
    /\ ipc' = "pretrained"
    /\ UNCHANGED <<grad, iargs, config, model, ioutcome, infVars, asyncVars>>

\* Line 32: config.model.pretrained = None
ISetPretrained ==
    /\ ipc = "pretrained"
    /\ config' = [config EXCEPT ![config.ref].pretrained = None]
    /\ ipc' = "build"
    /\ UNCHANGED <<grad, iargs, model, ioutcome, infVars, asyncVars>>

\* Line 33: build_detector: a module on the cpu, in training mode.
IBuild ==
    /\ ipc = "build"
    /\ model' = [built |-> TRUE, weights |-> "initial", CLASSES |-> "unset",
                 cfg |-> "unset", device |-> "cpu", training |-> TRUE,
                 warned |-> FALSE]
    /\ ipc' = "checkpoint"
    /\ UNCHANGED <<grad, iargs, config, ioutcome, infVars, asyncVars>>

\* Line 34, checkpoint is None.
INoCheckpoint ==
    /\ ipc = "checkpoint"
    /\ iargs.checkpoint = None
    /\ ipc' = "set_cfg"
    /\ UNCHANGED <<grad, iargs, config, model, ioutcome, infVars, asyncVars>>

\* Lines 34-43: load_checkpoint and model.CLASSES.
ILoadCheckpoint ==
    /\ ipc = "checkpoint"
    /\ iargs.checkpoint \in {"meta_with_CLASSES", "meta_without_CLASSES"}
    /\ model' = [model EXCEPT
                    !.weights = "checkpoint",
                    !.CLASSES = ClassesOf(iargs.checkpoint),
                    !.warned = (iargs.checkpoint # "meta_with_CLASSES")]
    /\ ipc' = "set_cfg"
    /\ UNCHANGED <<grad, iargs, config, ioutcome, infVars, asyncVars>>

\* Lines 34-37: load_checkpoint, then checkpoint['meta'] of a checkpoint
\* that has no 'meta' key.
ILoadCheckpointNoMeta ==
    /\ ipc = "checkpoint"
    /\ iargs.checkpoint = "no_meta"
    /\ model' = [model EXCEPT !.weights = "checkpoint"]
    /\ ioutcome' = [type |-> "KeyError"]
    /\ ipc' = "raised"
    /\ UNCHANGED <<grad, iargs, config, infVars, asyncVars>>

\* Line 44: model.cfg = config
ISetCfg ==
    /\ ipc = "set_cfg"
    /\ model' = [model EXCEPT !.cfg = config.ref]
    /\ ipc' = "to"
    /\ UNCHANGED <<grad, iargs, config, ioutcome, infVars, asyncVars>>

\* Line 45: model.to(device)
ITo ==
    /\ ipc = "to"
    /\ model' = [model EXCEPT !.device = iargs.device]
    /\ ipc' = "eval"
    /\ UNCHANGED <<grad, iargs, config, ioutcome, infVars, asyncVars>>

\* Lines 46-47: model.eval(); return model
IEvalReturn ==
    /\ ipc = "eval"
    /\ model' = [model EXCEPT !.training = FALSE]
    /\ ioutcome' = [type |-> "return"]
    /\ ipc' = "returned"
    /\ UNCHANGED <<grad, iargs, config, infVars, asyncVars>>

NextInit ==
    \/ ICall
    \/ ICheckFromfile
    \/ ICheckFromfileFails
    \/ ICheckRaise
    \/ ICheckKeep
    \/ ISetPretrained
    \/ IBuild
    \/ INoCheckpoint
    \/ ILoadCheckpoint
    \/ ILoadCheckpointNoMeta
    \/ ISetCfg
    \/ ITo
    \/ IEvalReturn

SpecInit == Init /\ [][NextInit]_vars

\* ------------------------------------------------------------ properties
FiveNames ==
    {"l2_norm", "kl_divergence", "cross_entropy", "js_divergence", "focal_loss"}

Range(s) == {s[i] : i \in 1 .. Len(s)}

RECURSIVE SumAt(_, _)
\* The sum of u over the index set S.
SumAt(u, S) ==
    IF S = {} THEN 0
    ELSE LET i == CHOOSE x \in S : TRUE IN u[i] + SumAt(u, S \ {i})

\* S holds k indices of u whose entries are the k largest, with multiplicity.
KLargest(u, S, k) ==
    /\ S \subseteq 1 .. Len(u)
    /\ Cardinality(S) = k
    /\ \A i \in S : \A j \in (1 .. Len(u)) \ S : u[i] >= u[j]

\* Rows of a tensor reordered by the permutation p.
Permute(t, p) == [i \in 1 .. Len(t) |-> t[p[i]]]

Identical == y_head_f_1 = y_head_f_2

\* C1: for 1 <= k <= N the indices arg[-k:] are those of the k largest
\* per-sample uncertainties (ties with multiplicity) and uncertainty_single
\* is their arithmetic mean.
Thm_C1_TopKMean ==
    (pc = "returned" /\ cfg.k >= 1 /\ cfg.k <= Len(uncertainty_all_N)) =>
        LET n == Len(uncertainty_all_N)
            S == {arg[i] : i \in (n - cfg.k + 1) .. n}
        IN  /\ KLargest(uncertainty_all_N, S, cfg.k)
            /\ uncertainty_single =
                  [num |-> SumAt(uncertainty_all_N, S), den |-> cfg.k]
            /\ \A T \in SUBSET (1 .. n) :
                  KLargest(uncertainty_all_N, T, cfg.k) =>
                      SumAt(uncertainty_all_N, T) = uncertainty_single.num

Wit_C1_TopKMean ==
    /\ pc = "returned"
    /\ Len(uncertainty_all_N) = 2
    /\ cfg.k = 1
    /\ uncertainty_all_N[1] > uncertainty_all_N[2]
    /\ uncertainty_single = [num |-> uncertainty_all_N[1], den |-> 1]

\* C2: a cfg.uncertainty_type outside the five names ends the call in a
\* ValueError and no pair is returned; one of the five never does; and the
\* names the message lists are exactly the names the branches accept.
Thm_C2_ValueError ==
    pc \in {"select", "returned", "raised"} =>
        /\ cfg.uncertainty_type \notin FiveNames =>
              pc = "raised" /\ outcome.type = "ValueError"
        /\ cfg.uncertainty_type \in FiveNames => pc # "raised"
        /\ pc = "raised" =>
              /\ outcome.name = cfg.uncertainty_type
              /\ Range(outcome.listed) =
                    {t \in TypeInputs : Branch(t) # "else"}
              /\ Range(outcome.listed) = FiveNames

Wit_C2_ValueError ==
    /\ pc = "raised"
    /\ cfg.uncertainty_type = "entropy"
    /\ outcome.type = "ValueError"
    /\ y_head_f_1 # <<>>

\* C3: permuting the sample rows of both head tensors alike leaves
\* uncertainty_single unchanged, whatever order argsort gives equal entries.
Thm_C3_PermutationInvariant ==
    pc = "returned" =>
        \A p \in Perms(Len(y_head_f_1)) :
            LET u == UncertaintyAllN(Branch(cfg.uncertainty_type),
                                     Permute(y_head_f_1, p),
                                     Permute(y_head_f_2, p))
            IN  \A a \in Argsort(u) :
                    TopKMean(u, a, cfg.k) = uncertainty_single

Wit_C3_PermutationInvariant ==
    /\ pc = "returned"
    /\ Len(y_head_f_1) = 2
    /\ cfg.k = 1
    /\ <<y_head_f_1[1], y_head_f_2[1]>> # <<y_head_f_1[2], y_head_f_2[2]>>
    /\ uncertainty_all_N[1] = uncertainty_all_N[2]
    /\ uncertainty_all_N[1] # 0

\* C4: identical head tensors give a zero uncertainty for every sample, and
\* a zero uncertainty_single, under l2_norm, kl_divergence and js_divergence.
Thm_C4_ZeroOnIdentical ==
    (/\ pc \in {"select", "returned"}
     /\ Identical
     /\ cfg.uncertainty_type \in {"l2_norm", "kl_divergence", "js_divergence"})
    =>
        /\ \A i \in 1 .. Len(uncertainty_all_N) : uncertainty_all_N[i] = 0
        /\ pc = "returned" => uncertainty_single.num = 0

Wit_C4_ZeroOnIdentical ==
    /\ pc = "returned"
    /\ Identical
    /\ cfg.uncertainty_type = "js_divergence"
    /\ Len(y_head_f_1) = 2
    /\ y_head_f_1[1] # y_head_f_1[2]
    /\ uncertainty_single.num = 0

Thm_C7_NoGradScope ==
    /\ pc \in {"forward", "dispatch", "select"} => grad = FALSE
    /\ pc \in {"returned", "raised"} => grad = grad_at_call

Wit_C7_NoGradScope ==
    /\ pc = "raised"
    /\ grad_at_call = TRUE
    /\ grad = TRUE
    /\ prev = TRUE

\* C10: for k = 0 and for k >= N the slice covers all N samples and
\* uncertainty_single is the mean of all per-sample uncertainties.
Thm_C10_WholeSlice ==
    (pc = "returned" /\ (cfg.k = 0 \/ cfg.k >= Len(uncertainty_all_N))) =>
        /\ Range(SliceLast(arg, cfg.k)) = 1 .. Len(uncertainty_all_N)
        /\ uncertainty_single =
              [num |-> SumAt(uncertainty_all_N, 1 .. Len(uncertainty_all_N)),
               den |-> Len(uncertainty_all_N)]
        /\ uncertainty_single.den >= 1

Wit_C10_WholeSlice ==
    /\ pc = "returned"
    /\ cfg.k = 0
    /\ Len(uncertainty_all_N) = 2
    /\ uncertainty_all_N[1] # uncertainty_all_N[2]
    /\ uncertainty_single.den = 2

\* C6: grad is disabled whenever some call's aforward_test is in progress,
\* and once every call has finished grad is disabled, whatever it was at
\* the start.
Thm_C6_AsyncGrad ==
    /\ (\E c \in 1 .. NumCalls : InForward(c)) => grad = FALSE
    /\ (\A c \in 1 .. NumCalls : apc[c] = "done") => grad = FALSE

Wit_C6_AsyncGrad ==
    /\ agrad_init = TRUE
    /\ \E c, d, e \in 1 .. NumCalls :
          /\ apc[c] = "aforward_test"
          /\ apc[d] = "aforward_test_2"
          /\ apc[e] = "done"
    /\ grad = FALSE

\* C8: a config that is neither a str nor a Config ends the call in a
\* TypeError with no model built, no checkpoint loaded and the passed
\* object untouched; a str or a Config never ends it in a TypeError.
Thm_C8_TypeError ==
    /\ (ipc \notin {"idle", "check"} /\ iargs.config \notin {"str", "Config"}) =>
          /\ ipc = "raised"
          /\ ioutcome.type = "TypeError"
          /\ model = NoModel
          /\ config = [ref |-> "passed",
                       passed |-> [kind |-> iargs.config,
                                   pretrained |-> Pretrained],
                       loaded |-> NoConfig]
    /\ (ipc # "idle" /\ iargs.config \in {"str", "Config"}) =>
          ioutcome.type # "TypeError"

Wit_C8_TypeError ==
    /\ ipc = "raised"
    /\ iargs.config = "dict"
    /\ iargs.checkpoint = "meta_with_CLASSES"
    /\ ioutcome.type = "TypeError"

\* C9: with checkpoint None no weights are loaded and model.CLASSES is not
\* assigned; a returned model has the checkpoint's CLASSES when its meta
\* holds them and the COCO classes, with a warning, when it does not; and a
\* returned model has cfg set to the config, is on the device and is in
\* eval mode.
Thm_C9_ReturnedModel ==
    /\ (ipc # "idle" /\ iargs.checkpoint = None) =>
          model.weights # "checkpoint" /\ model.CLASSES = "unset"
    /\ ipc = "returned" =>
          /\ ioutcome.type = "return"
          /\ model.built
          /\ iargs.checkpoint # None => model.weights = "checkpoint"
          /\ iargs.checkpoint = "meta_with_CLASSES" =>
                model.CLASSES = "checkpoint_CLASSES" /\ ~model.warned
          /\ iargs.checkpoint = "meta_without_CLASSES" =>
                model.CLASSES = "coco_classes" /\ model.warned
          /\ model.cfg = (IF iargs.config = "str" THEN "loaded" ELSE "passed")
          /\ config[model.cfg].kind = "Config"
          /\ model.device = iargs.device
          /\ model.training = FALSE

Wit_C9_ReturnedModel ==
    /\ ipc = "returned"
    /\ iargs.checkpoint = "meta_with_CLASSES"
    /\ iargs.device = "cuda:0"
    /\ iargs.config = "str"
    /\ model.CLASSES = "checkpoint_CLASSES"
    /\ model.device = "cuda:0"
====
